---- MODULE Spec2Model ----
(***************************************************************************)
(* Model of src/main.py: the news/social digest bot.  One run of main()   *)
(* classifies the fetched items, selects at most 3 news and 2 social      *)
(* items, records them in the SQLite history store and sends the digest.  *)
(*                                                                         *)
(* Text is modelled as sequences of one-character strings, so that the    *)
(* normaliser and the keyword matcher are computed as the code computes   *)
(* them.                                                                   *)
(***************************************************************************)
EXTENDS Integers, Sequences, FiniteSets, TLC

(***************************************************************************)
(* Characters                                                              *)
(***************************************************************************)
UpperCase == <<"A","B","C","D","E","F","G","H","I","J","K","L","M",
               "N","O","P","Q","R","S","T","U","V","W","X","Y","Z">>

LowerCase == <<"a","b","c","d","e","f","g","h","i","j","k","l","m",
               "n","o","p","q","r","s","t","u","v","w","x","y","z">>

Digits == {"0","1","2","3","4","5","6","7","8","9"}

Range(s) == {s[i] : i \in 1..Len(s)}

\* str.lower() on one character (ASCII)
LowerChar(c) ==
  IF \E i \in 1..Len(UpperCase) : UpperCase[i] = c
  THEN LowerCase[CHOOSE i \in 1..Len(UpperCase) : UpperCase[i] = c]
  ELSE c

\* the regex class \s, and what str.strip() removes
IsSpace(c) == c \in {" ", "\t", "\n", "\r"}

\* str.isalpha(): non-empty and every character a letter
isalpha(s) == Len(s) > 0 /\ \A i \in 1..Len(s) : s[i] \in Range(UpperCase) \cup Range(LowerCase)

\* the regex class \w, which decides where \b holds
IsWordChar(c) == c \in Range(UpperCase) \cup Range(LowerCase) \cup Digits \cup {"_"}

(***************************************************************************)
(* norm_text                                                               *)
(***************************************************************************)
RECURSIVE CollapseSpaces(_)
\* re.sub(r"\s+", " ", s): every maximal run of whitespace becomes one space
CollapseSpaces(s) ==
  IF s = <<>> THEN <<>>
  ELSE IF IsSpace(s[1])
       THEN IF Len(s) > 1 /\ IsSpace(s[2])
            THEN CollapseSpaces(Tail(s))
            ELSE <<" ">> \o CollapseSpaces(Tail(s))
       ELSE <<s[1]>> \o CollapseSpaces(Tail(s))

RECURSIVE LStrip(_)
LStrip(s) == IF s # <<>> /\ IsSpace(s[1]) THEN LStrip(Tail(s)) ELSE s

RECURSIVE RStrip(_)
RStrip(s) == IF s # <<>> /\ IsSpace(s[Len(s)]) THEN RStrip(SubSeq(s, 1, Len(s) - 1)) ELSE s

\* str.strip()
Strip(s) == RStrip(LStrip(s))

norm_text(s) == Strip(CollapseSpaces([i \in 1..Len(s) |-> LowerChar(s[i])]))

(***************************************************************************)
(* kw_in_text                                                              *)
(***************************************************************************)
\* Python's `kw in text` on strings
Contains(text, kw) ==
  \E i \in 1..(Len(text) - Len(kw) + 1) : SubSeq(text, i, i + Len(kw) - 1) = kw

\* re.escape on a keyword: a backslash before every character that is not a word
\* character (the keywords it is applied to are alphabetic, so it changes nothing)
RECURSIVE re_escape(_)
re_escape(kw) ==
  IF kw = <<>> THEN <<>>
  ELSE IF IsWordChar(kw[1]) THEN <<kw[1]>> \o re_escape(Tail(kw))
       ELSE <<"\\", kw[1]>> \o re_escape(Tail(kw))

\* The pattern text of line 92.  In the raw f-string rf"\\b{...}\\b" each "\\"
\* is TWO backslash characters, so the pattern is  \\b<kw>\\b .
ShortKwPattern(kw) == <<"\\", "\\", "b">> \o re_escape(kw) \o <<"\\", "\\", "b">>

RECURSIVE re_parse(_)
\* The regex compiler on the patterns that occur: a backslash followed by "b" is
\* the word-boundary assertion, a backslash followed by any other character is
\* that character taken literally, every other character is itself.
re_parse(p) ==
  IF p = <<>> THEN <<>>
  ELSE IF p[1] = "\\" /\ Len(p) > 1
       THEN IF p[2] = "b"
            THEN <<[kind |-> "boundary", ch |-> ""]>> \o re_parse(SubSeq(p, 3, Len(p)))
            ELSE <<[kind |-> "lit", ch |-> p[2]]>> \o re_parse(SubSeq(p, 3, Len(p)))
       ELSE <<[kind |-> "lit", ch |-> p[1]]>> \o re_parse(Tail(p))

\* \b holds between positions pos-1 and pos of text when exactly one side is a
\* word character (the ends of the text count as non-word)
AtBoundary(text, pos) ==
  LET before == pos > 1 /\ IsWordChar(text[pos - 1])
      after  == pos <= Len(text) /\ IsWordChar(text[pos])
  IN  before # after

RECURSIVE re_match_at(_, _, _)
\* the atoms match text starting at position pos
re_match_at(atoms, text, pos) ==
  IF atoms = <<>> THEN TRUE
  ELSE IF atoms[1].kind = "boundary"
       THEN AtBoundary(text, pos) /\ re_match_at(Tail(atoms), text, pos)
       ELSE pos <= Len(text) /\ text[pos] = atoms[1].ch
            /\ re_match_at(Tail(atoms), text, pos + 1)

\* re.search(pattern, text) is not None
re_search(pattern, text) ==
  \E pos \in 1..(Len(text) + 1) : re_match_at(re_parse(pattern), text, pos)

kw_in_text(text, kw) ==
  IF " " \in Range(kw) THEN Contains(text, kw)
  ELSE IF isalpha(kw) /\ Len(kw) <= 3 THEN re_search(ShortKwPattern(kw), text)
  ELSE Contains(text, kw)

(***************************************************************************)
(* The keyword taxonomy and the classifier                                 *)
(***************************************************************************)
TOPIC_KEYWORDS ==
  <<
     [topic |-> "EU_big", kws |-> <<
        <<"e","u">>,
        <<"e","u","r","o","p","e","a","n"," ","c","o","m","m","i","s","s","i","o","n">>,
        <<"u","k","r","a","i","n","e">>,
        <<"r","u","s","s","i","a">> >>],
     [topic |-> "Lux_immigration", kws |-> <<
        <<"l","u","x","e","m","b","o","u","r","g">>,
        <<"r","e","s","i","d","e","n","c","e">>,
        <<"v","i","s","a">>,
        <<"b","l","u","e"," ","c","a","r","d">>,
        <<"s","c","h","e","n","g","e","n">>,
        <<"i","m","m","i","g","r","a","t","i","o","n">> >>],
     [topic |-> "Quant_fin", kws |-> <<
        <<"q","u","a","n","t">>,
        <<"t","r","a","d","i","n","g">>,
        <<"c","r","y","p","t","o">>,
        <<"v","o","l","a","t","i","l","i","t","y">>,
        <<"e","c","b">>,
        <<"r","a","t","e","s">>,
        <<"i","n","f","l","a","t","i","o","n">>,
        <<"m","a","r","k","e","t">> >>],
     [topic |-> "Research_engineering", kws |-> <<
        <<"r","e","s","e","a","r","c","h">>,
        <<"p","a","p","e","r">>,
        <<"u","n","i","v","e","r","s","i","t","y">>,
        <<"a","e","r","o","s","p","a","c","e">>,
        <<"w","i","n","d">>,
        <<"g","r","i","d">>,
        <<"n","u","c","l","e","a","r">>,
        <<"s","e","m","i","c","o","n","d","u","c","t","o","r">>,
        <<"a","i">> >>],
     [topic |-> "Space", kws |-> <<
        <<"n","a","s","a">>,
        <<"e","s","a">>,
        <<"l","a","u","n","c","h">>,
        <<"s","a","t","e","l","l","i","t","e">>,
        <<"s","p","a","c","e">>,
        <<"a","s","t","r","o","n","o","m","y">> >>],
     [topic |-> "Taiwan_life", kws |-> <<
        <<"t","a","i","w","a","n">>,
        <<"l","g","b","t","q">>,
        <<"g","e","n","d","e","r">>,
        <<"c","h","i","l","d","c","a","r","e">>,
        <<"f","e","r","t","i","l","i","t","y">>,
        <<"m","a","r","r","i","a","g","e">>,
        <<"c","o","s","t"," ","o","f"," ","l","i","v","i","n","g">>,
        <<"s","a","v","i","n","g">> >>]
  >>

None == "None"

\* number of keywords of one list found in the text
KwHits(text, kws) == Cardinality({j \in 1..Len(kws) : kw_in_text(text, kws[j])})

RECURSIVE SumHits(_, _)
SumHits(text, k) ==
  IF k = 0 THEN 0 ELSE SumHits(text, k - 1) + KwHits(text, TOPIC_KEYWORDS[k].kws)

topic_hits_in_title(title) == SumHits(norm_text(title), Len(TOPIC_KEYWORDS))

RECURSIVE TopicLoop(_, _, _)
\* the loop of topic_label over the first k topics: a later topic replaces the
\* best one only with strictly more hits
TopicLoop(text, k, init) ==
  IF k = 0 THEN init
  ELSE LET prev == TopicLoop(text, k - 1, init)
           hits == KwHits(text, TOPIC_KEYWORDS[k].kws)
       IN  IF hits > prev.best_hits
           THEN [best_topic |-> TOPIC_KEYWORDS[k].topic, best_hits |-> hits]
           ELSE prev

topic_label(title) ==
  TopicLoop(norm_text(title), Len(TOPIC_KEYWORDS), [best_topic |-> None, best_hits |-> 0])

LuxKeywords == (CHOOSE e \in Range(TOPIC_KEYWORDS) : e.topic = "Lux_immigration").kws

lux_immigration_hit(title) ==
  \E j \in 1..Len(LuxKeywords) : kw_in_text(norm_text(title), LuxKeywords[j])

(***************************************************************************)
(* The titles the feeds can carry.  An item holds the index of its title;  *)
(* two titles have the same normalised text exactly when TitleNorm gives   *)
(* them the same index.                                                    *)
(***************************************************************************)
RawTitles ==
  << <<"L","u","x","e","m","b","o","u","r","g"," ","v","i","s","a">>,
     <<"u","k","r","a","i","n","e"," "," ","v","i","s","a">>,
     <<"n","a","s","a"," ","l","a","u","n","c","h">>,
     <<"c","r","y","p","t","o">>,
     <<"t","a","i","w","a","n">>,
     <<"g","r","i","d">>,
     <<"r","a","i","n">>,
     <<"C","r","y","p","t","o"," ">>,
     <<"e","u"," ","s","u","m","m","i","t">>,
     <<"d","a","i","l","y"," ","t","h","r","e","a","d">> >>

NormTexts == [i \in 1..Len(RawTitles) |-> norm_text(RawTitles[i])]

\* what main() computes from a title (lines 363-369 and 378), tabulated once per
\* title; title_norm is the index of the first title with the same normalised text
TitleInfo ==
  [i \in 1..Len(RawTitles) |->
     [title_norm |-> CHOOSE j \in 1..Len(RawTitles) :
                        /\ NormTexts[j] = NormTexts[i]
                        /\ \A k \in 1..(j - 1) : NormTexts[k] # NormTexts[i],
      topic_hits |-> topic_hits_in_title(RawTitles[i]),
      topic      |-> topic_label(RawTitles[i]).best_topic,
      lux_hit    |-> lux_immigration_hit(RawTitles[i])]]

Topics == {TOPIC_KEYWORDS[k].topic : k \in 1..Len(TOPIC_KEYWORDS)}

(***************************************************************************)
(* Configuration (lines 42-48)                                             *)
(***************************************************************************)
LOOKBACK_HOURS_NEWS == 6
LOOKBACK_HOURS_REDDIT == 48
TOTAL_PUSH_COUNT == 5
FIXED_REDDIT_COUNT == 2
OTHER_NEWS_COUNT == TOTAL_PUSH_COUNT - FIXED_REDDIT_COUNT
MinLuxComments == 10
GroupCeiling == 3
lux_sub == "Luxembourg"

(***************************************************************************)
(* Bounds of the model                                                     *)
(***************************************************************************)
\* most news items, and most social items, one run fetches
MaxNews == 4
MaxSocial == 4
\* most items delivered by earlier runs
MaxPrior == 1
\* seconds the clock may advance while the run writes
MaxTicks == 1
\* most calls of mark_seen on a store that starts empty
MaxMarks == 3
\* longest text kw_in_text is applied to
MaxTextLen == 4

(***************************************************************************)
(* Time.  Seconds since the epoch; the day key is the number of the UTC+8  *)
(* calendar day (strftime("%Y-%m-%d") names each day differently).         *)
(***************************************************************************)
Hour == 60 * 60
Now0 == 20000 * 24 * Hour + 12 * Hour
PriorTs == Now0 - Hour

utc8_day_key(now) == (now + 8 * Hour) \div (24 * Hour)

(***************************************************************************)
(* What the feeds can carry, in feed order.  A raw item is what fetch_rss, *)
(* fetch_guardian and fetch_reddit_hot build; the keys a news item does    *)
(* not have are given the value dict.get() would return for them.          *)
(***************************************************************************)
NewsItem(src, t, u, age) ==
  [source |-> src, kind |-> "news", subreddit |-> None, title |-> t, url |-> u,
   published_ts |-> Now0 - age * Hour, comments |-> 0, popularity |-> 0]

RedditItem(sub, t, u, age, score, comments) ==
  [source |-> "Reddit", kind |-> "reddit", subreddit |-> sub, title |-> t, url |-> u,
   published_ts |-> Now0 - age * Hour, comments |-> comments,
   popularity |-> score + comments]

NewsWorld ==
  << NewsItem("DW", 1, "dw/1", 1),             \* Luxembourg visa
     NewsItem("DW", 2, "dw/2", 10),            \* ukraine visa, older than 6 h
     NewsItem("France24", 3, "reddit/w1", 2),  \* nasa launch, links a Reddit thread
     NewsItem("France24", 4, "f24/2", 1),      \* crypto
     NewsItem("Guardian", 5, "", 3),           \* taiwan, no webUrl
     NewsItem("Guardian", 6, "", 2),           \* grid, no webUrl
     NewsItem("LeMonde", 8, "lm/1", 1),        \* "Crypto ": same normalised title
     NewsItem("DW", 7, "dw/3", 1) >>           \* rain: no keyword

RedditWorld ==
  << RedditItem("Luxembourg", 7, "reddit/l1", 5, 5, 12),
     RedditItem("worldnews", 4, "reddit/w1", 1, 90, 10),
     RedditItem("science", 3, "reddit/s1", 2, 40, 10),
     RedditItem("europe", 6, "reddit/e1", 60, 60, 10),   \* older than 48 h
     RedditItem("Luxembourg", 9, "reddit/l2", 1, 30, 3), \* under 10 comments
     RedditItem("worldnews", 5, "reddit/l1", 1, 190, 10) >> \* the url of the first

\* the items a run that gets both kinds of feed can fetch
MixedNews == {1, 3, 4, 5, 8}
MixedSocial == {1, 2, 3, 6}

QuotaGroups == {"worldnews", "science", "europe"}

(***************************************************************************)
(* Helpers on sequences                                                    *)
(***************************************************************************)
\* the subsequence of s at the indices I, in order
Pick(s, I) ==
  [k \in 1..Cardinality(I) |->
     s[CHOOSE i \in I : Cardinality({j \in I : j < i}) = k - 1]]

Urls(s) == {s[i].url : i \in 1..Len(s)}

Min(a, b) == IF a < b THEN a ELSE b

\* s[:n]
Take(s, n) == SubSeq(s, 1, Min(n, Len(s)))

\* key a is greater than key b (tuples of integers, compared left to right)
KeyGt(a, b) ==
  \E i \in 1..Len(a) : a[i] > b[i] /\ \A j \in 1..(i - 1) : a[j] = b[j]

\* list.sort(key=..., reverse=True): descending by key and stable, so items with
\* equal keys keep their order.  key is the sequence of the items' keys.
SortDesc(s, key) ==
  LET pos(i) == 1 + Cardinality({j \in 1..Len(s) : KeyGt(key[j], key[i])})
                  + Cardinality({j \in 1..(i - 1) : key[j] = key[i]})
  IN  [p \in 1..Len(s) |-> s[CHOOSE i \in 1..Len(s) : pos(i) = p]]

\* sort(key=lambda x: (x["topic_hits"], x["published_ts"]), reverse=True)
SortNews(s) == SortDesc(s, [i \in 1..Len(s) |-> <<s[i].topic_hits, s[i].published_ts>>])

\* sort(key=lambda x: x["published_ts"], reverse=True)
SortRecent(s) == SortDesc(s, [i \in 1..Len(s) |-> <<s[i].published_ts>>])

\* sort(key=lambda x: (x["popularity"], x["published_ts"]), reverse=True)
SortPopular(s) == SortDesc(s, [i \in 1..Len(s) |-> <<s[i].popularity, s[i].published_ts>>])

(***************************************************************************)
(* The history store                                                       *)
(***************************************************************************)
VARIABLES
  seen,             \* table seen: url -> ts
  seen_title,       \* table seen_title: title -> ts
  subreddit_daily,  \* table subreddit_daily: <<day, subreddit>> -> cnt
  clock,            \* time.time()
  pc,               \* where main() is
  news_items, reddit_items,
  news_all_kw, news_primary, reddit_all,
  selected_news, selected_news_urls,
  remaining_news_primary, remaining_news_fallback,
  selected_reddit, selected_reddit_urls,
  day_key, used_today, planned_today, second_pick,
  selected, widx,
  outbox,           \* what tg_send was called with, and whether it was delivered
  history,          \* the store when the run began, and the lengths of
                    \* selected_news when pick_news_diverse was called
  marked,           \* the pairs mark_seen was called with
  kw_text, kw_arg, kw_found   \* an application of kw_in_text

storeVars == <<seen, seen_title, subreddit_daily>>
newsVars == <<news_all_kw, news_primary, selected_news, selected_news_urls,
              remaining_news_primary, remaining_news_fallback>>
redditVars == <<reddit_all, selected_reddit, selected_reddit_urls,
                day_key, used_today, planned_today, second_pick>>
inputVars == <<news_items, reddit_items>>
kwVars == <<kw_text, kw_arg, kw_found>>
vars == <<seen, seen_title, subreddit_daily, clock, pc, news_items, reddit_items,
          news_all_kw, news_primary, reddit_all, selected_news, selected_news_urls,
          remaining_news_primary, remaining_news_fallback, selected_reddit,
          selected_reddit_urls, day_key, used_today, planned_today, second_pick,
          selected, widx, outbox, history, marked, kw_text, kw_arg, kw_found>>

\* already_seen without the title lookup
already_seen_by_url(url, title_norm) == url \in DOMAIN seen

already_seen(url, title_norm) ==
  IF url \in DOMAIN seen THEN TRUE ELSE title_norm \in DOMAIN seen_title

\* INSERT OR REPLACE: an existing row gets the new timestamp
InsertOrReplace(table, k, ts) ==
  [x \in DOMAIN table \cup {k} |-> IF x = k THEN ts ELSE table[x]]

\* INSERT OR IGNORE INTO t(k, ts): an existing row is left as it is
InsertOrIgnore(table, k, ts) ==
  IF k \in DOMAIN table THEN table
  ELSE [x \in DOMAIN table \cup {k} |-> IF x = k THEN ts ELSE table[x]]

\* mark_seen: both inserts become durable together at conn.commit()
mark_seen(url, title_norm) ==
  LET ts == clock
  IN  /\ seen' = InsertOrIgnore(seen, url, ts)
      /\ seen_title' = InsertOrIgnore(seen_title, title_norm, ts)

get_used_subreddits_today(day) ==
  {r[2] : r \in {k \in DOMAIN subreddit_daily : k[1] = day}}

\* INSERT ... VALUES(?, ?, 1) ON CONFLICT(day, subreddit) DO UPDATE SET cnt = cnt + 1
Upsert(table, k) ==
  IF k \in DOMAIN table THEN [table EXCEPT ![k] = @ + 1]
  ELSE [x \in DOMAIN table \cup {k} |-> IF x = k THEN 1 ELSE table[x]]

mark_subreddit_used(day, subreddit) ==
  subreddit_daily' = Upsert(subreddit_daily, <<day, subreddit>>)

(***************************************************************************)
(* Selection primitives                                                    *)
(***************************************************************************)
\* pick_first: the index of the first candidate whose url is not in used_urls,
\* 0 for None; the caller adds the url of the pick to used_urls
pick_first(candidates, used_urls) ==
  IF \E i \in 1..Len(candidates) : candidates[i].url \notin used_urls
  THEN CHOOSE i \in 1..Len(candidates) :
         /\ candidates[i].url \notin used_urls
         /\ \A j \in 1..(i - 1) : candidates[j].url \in used_urls
  ELSE 0

\* topic_counts as pick_news_diverse builds it from the items already selected
TopicCounts(sel) ==
  [t \in Topics |-> Cardinality({i \in 1..Len(sel) : sel[i].topic = t})]

RECURSIVE DiversityPassAnyTopic(_, _, _, _)
\* the first loop without its topic test
DiversityPassAnyTopic(candidates, i, st, limit) ==
  IF i > Len(candidates) \/ Len(st.sel) >= limit THEN st
  ELSE LET it == candidates[i]
       IN  IF it.url \in st.urls THEN DiversityPassAnyTopic(candidates, i + 1, st, limit)
           ELSE DiversityPassAnyTopic(candidates, i + 1,
                  [sel    |-> Append(st.sel, it),
                   urls   |-> st.urls \cup {it.url},
                   counts |-> st.counts], limit)

RECURSIVE DiversityPass(_, _, _, _)
\* lines 301-310: the first loop, from candidate i on
DiversityPass(candidates, i, st, limit) ==
  IF i > Len(candidates) \/ Len(st.sel) >= limit THEN st
  ELSE LET it == candidates[i]
       IN  IF it.url \in st.urls THEN DiversityPass(candidates, i + 1, st, limit)
           ELSE IF it.topic # None /\ st.counts[it.topic] = 0
                THEN DiversityPass(candidates, i + 1,
                       [sel    |-> Append(st.sel, it),
                        urls   |-> st.urls \cup {it.url},
                        counts |-> [st.counts EXCEPT ![it.topic] = 1]], limit)
                ELSE DiversityPass(candidates, i + 1, st, limit)

RECURSIVE FillPass(_, _, _, _)
\* lines 312-321: the second loop, from candidate i on
FillPass(candidates, i, st, limit) ==
  IF i > Len(candidates) \/ Len(st.sel) >= limit THEN st
  ELSE LET it == candidates[i]
       IN  IF it.url \in st.urls THEN FillPass(candidates, i + 1, st, limit)
           ELSE FillPass(candidates, i + 1,
                  [sel    |-> Append(st.sel, it),
                   urls   |-> st.urls \cup {it.url},
                   counts |-> IF it.topic # None
                              THEN [st.counts EXCEPT ![it.topic] = @ + 1]
                              ELSE st.counts], limit)

\* pick_news_diverse with its first loop left out
pick_news_by_rank(candidates, sel, sel_urls, limit) ==
  FillPass(candidates, 1, [sel |-> sel, urls |-> sel_urls, counts |-> TopicCounts(sel)], limit)

\* pick_news_diverse: the selection and the url set it leaves
pick_news_diverse(candidates, sel, sel_urls, limit) ==
  LET st0 == [sel |-> sel, urls |-> sel_urls, counts |-> TopicCounts(sel)]
  IN  FillPass(candidates, 1, DiversityPass(candidates, 1, st0, limit), limit)

(***************************************************************************)
(* main(), step by step                                                    *)
(***************************************************************************)
\* lines 358-382: cutoffs, classification, the seen and window flags, the pools
ClassifyNews(it, cutoff) ==
  [source |-> it.source, kind |-> it.kind, subreddit |-> it.subreddit,
   title |-> it.title, url |-> it.url, published_ts |-> it.published_ts,
   comments |-> it.comments, popularity |-> it.popularity,
   title_norm |-> TitleInfo[it.title].title_norm,
   topic_hits |-> TitleInfo[it.title].topic_hits,
   topic |-> TitleInfo[it.title].topic,
   lux_hit |-> TitleInfo[it.title].lux_hit,
   is_seen |-> already_seen(it.url, TitleInfo[it.title].title_norm),
   in_window |-> it.published_ts >= cutoff]

\* a social item is not classified: it keeps no topic
ClassifyReddit(it, cutoff) ==
  [source |-> it.source, kind |-> it.kind, subreddit |-> it.subreddit,
   title |-> it.title, url |-> it.url, published_ts |-> it.published_ts,
   comments |-> it.comments, popularity |-> it.popularity,
   title_norm |-> TitleInfo[it.title].title_norm,
   topic_hits |-> 0, topic |-> None, lux_hit |-> FALSE,
   is_seen |-> already_seen(it.url, TitleInfo[it.title].title_norm),
   in_window |-> it.published_ts >= cutoff]

\* the filter of line 367 written `< 0`
IsKeywordNonNegative(x) == x.topic_hits >= 0

IsKeywordPositive(x) == x.topic_hits > 0

IsPrimaryNews(x) == x.in_window /\ ~x.is_seen

Classify ==
  /\ pc = "start"
  /\ LET news_cutoff == clock - LOOKBACK_HOURS_NEWS * 3600
         reddit_cutoff == clock - LOOKBACK_HOURS_REDDIT * 3600
         scored == [i \in 1..Len(news_items) |-> ClassifyNews(news_items[i], news_cutoff)]
     IN  /\ news_all_kw' = SelectSeq(scored, IsKeywordPositive)
         /\ news_primary' = SelectSeq(SelectSeq(scored, IsKeywordPositive), IsPrimaryNews)
         /\ reddit_all' = [i \in 1..Len(reddit_items) |->
                             ClassifyReddit(reddit_items[i], reddit_cutoff)]
  /\ pc' = "news_priority"
  /\ UNCHANGED <<storeVars, clock, inputVars, selected_news, selected_news_urls,
                 remaining_news_primary, remaining_news_fallback, selected_reddit,
                 selected_reddit_urls, day_key, used_today, planned_today,
                 second_pick, selected, widx, outbox, history, marked, kwVars>>

IsLuxHit(x) == x.lux_hit

\* lines 384-397: the priority news slot
NewsPriorityPool ==
  LET lux_news == SortNews(SelectSeq(news_primary, IsLuxHit))
      lux_news_fallback == SortNews(SelectSeq(news_all_kw, IsLuxHit))
  IN  IF lux_news # <<>> THEN lux_news ELSE lux_news_fallback

NewsPriority ==
  /\ pc = "news_priority"
  /\ LET pool == NewsPriorityPool
         first == pick_first(pool, {})
     IN  IF first # 0
         THEN /\ selected_news' = <<pool[first]>>
              /\ selected_news_urls' = {pool[first].url}
         ELSE /\ selected_news' = <<>>
              /\ selected_news_urls' = {}
  /\ pc' = "news_primary"
  /\ history' = [history EXCEPT !.n_priority = Len(selected_news')]
  /\ UNCHANGED <<storeVars, clock, inputVars, news_all_kw, news_primary, reddit_all,
                 remaining_news_primary, remaining_news_fallback, selected_reddit,
                 selected_reddit_urls, day_key, used_today, planned_today,
                 second_pick, selected, widx, outbox, marked, kwVars>>

\* the comprehension [x for x in pool if x["url"] not in selected_news_urls]
Unclaimed(pool, urls) == SelectSeq(pool, LAMBDA x : x.url \notin urls)

\* lines 399-401: the remaining slots from the primary pool
NewsPrimary ==
  /\ pc = "news_primary"
  /\ LET pool == SortNews(Unclaimed(news_primary, selected_news_urls))
         res  == pick_news_diverse(pool, selected_news, selected_news_urls, OTHER_NEWS_COUNT)
     IN  /\ remaining_news_primary' = pool
         /\ selected_news' = res.sel
         /\ selected_news_urls' = res.urls
  /\ pc' = "news_fallback"
  /\ history' = [history EXCEPT !.n_primary = Len(selected_news')]
  /\ UNCHANGED <<storeVars, clock, inputVars, news_all_kw, news_primary, reddit_all,
                 remaining_news_fallback, selected_reddit, selected_reddit_urls,
                 day_key, used_today, planned_today, second_pick, selected, widx,
                 outbox, marked, kwVars>>

\* lines 403-406: the slots still empty from the keyword-positive pool
NewsFallback ==
  /\ pc = "news_fallback"
  /\ IF Len(selected_news) < OTHER_NEWS_COUNT
     THEN LET pool == SortNews(Unclaimed(news_all_kw, selected_news_urls))
              res  == pick_news_diverse(pool, selected_news, selected_news_urls,
                                        OTHER_NEWS_COUNT)
          IN  /\ remaining_news_fallback' = pool
              /\ selected_news' = res.sel
              /\ selected_news_urls' = res.urls
     ELSE UNCHANGED <<remaining_news_fallback, selected_news, selected_news_urls>>
  /\ pc' = "reddit_lux"
  /\ UNCHANGED <<storeVars, clock, inputVars, news_all_kw, news_primary, reddit_all,
                 remaining_news_primary, selected_reddit, selected_reddit_urls,
                 day_key, used_today, planned_today, second_pick, selected, widx,
                 outbox, history, marked, kwVars>>

IsLuxPost(x) == x.subreddit = lux_sub /\ x.comments >= MinLuxComments

IsUnseen(x) == ~x.is_seen

IsNonLux(x) == x.subreddit # lux_sub

IsInWindow(x) == x.in_window

\* lines 421-434: the two pools of social slot A
LuxPools(all) ==
  << SortRecent(SelectSeq(SelectSeq(all, IsLuxPost), IsUnseen)),
     SortRecent(SelectSeq(all, IsLuxPost)) >>

\* lines 445-456: the four pools of social slot B
NonLuxPools(all) ==
  << SortPopular(SelectSeq(SelectSeq(SelectSeq(all, IsNonLux), IsInWindow), IsUnseen)),
     SortPopular(SelectSeq(SelectSeq(all, IsNonLux), IsInWindow)),
     SortPopular(SelectSeq(SelectSeq(all, IsNonLux), IsUnseen)),
     SortPopular(SelectSeq(all, IsNonLux)) >>

\* the loop `for pool in pools: pick = pick_first(pool, urls); if pick: break`:
\* the pick of the first pool that yields one, as a list of no or one item
PickFromPools(pools, used_urls) ==
  IF \E p \in 1..Len(pools) : pick_first(pools[p], used_urls) # 0
  THEN LET p == CHOOSE q \in 1..Len(pools) :
                  /\ pick_first(pools[q], used_urls) # 0
                  /\ \A r \in 1..(q - 1) : pick_first(pools[r], used_urls) = 0
       IN  <<pools[p][pick_first(pools[p], used_urls)]>>
  ELSE <<>>

\* lines 460-465 on one pool: the first candidate that is unclaimed and whose
\* group is not in `taken`, 0 if there is none
FirstFresh(pool, used_urls, taken) ==
  IF \E i \in 1..Len(pool) : pool[i].url \notin used_urls /\ pool[i].subreddit \notin taken
  THEN CHOOSE i \in 1..Len(pool) :
         /\ pool[i].url \notin used_urls /\ pool[i].subreddit \notin taken
         /\ \A j \in 1..(i - 1) :
              ~(pool[j].url \notin used_urls /\ pool[j].subreddit \notin taken)
  ELSE 0

\* lines 458-467: the fairness search over the pools in order
FairPick(pools, used_urls, taken) ==
  IF \E p \in 1..Len(pools) : FirstFresh(pools[p], used_urls, taken) # 0
  THEN LET p == CHOOSE q \in 1..Len(pools) :
                  /\ FirstFresh(pools[q], used_urls, taken) # 0
                  /\ \A r \in 1..(q - 1) : FirstFresh(pools[r], used_urls, taken) = 0
       IN  <<pools[p][FirstFresh(pools[p], used_urls, taken)]>>
  ELSE <<>>

\* second_pick without the fairness search
SecondPickByRank(pools, used_urls, used, planned) == PickFromPools(pools, used_urls)

\* lines 444-473: second_pick, as a list of no or one item
SecondPick(pools, used_urls, used, planned) ==
  LET fair == IF Cardinality(used \cup planned) < GroupCeiling
              THEN FairPick(pools, used_urls, used \cup planned)
              ELSE <<>>
  IN  IF fair = <<>> THEN PickFromPools(pools, used_urls) ELSE fair

\* lines 418-438: social slot A
RedditLux ==
  /\ pc = "reddit_lux"
  /\ selected_reddit' = PickFromPools(LuxPools(reddit_all), {})
  /\ selected_reddit_urls' = Urls(selected_reddit')
  /\ pc' = "reddit_second"
  /\ UNCHANGED <<storeVars, clock, inputVars, newsVars, reddit_all, day_key,
                 used_today, planned_today, second_pick, selected, widx, outbox,
                 history, marked, kwVars>>

\* lines 440-476: social slot B
RedditSecond ==
  /\ pc = "reddit_second"
  /\ day_key' = utc8_day_key(clock)
  /\ used_today' = get_used_subreddits_today(day_key')
  /\ planned_today' = {selected_reddit[i].subreddit : i \in 1..Len(selected_reddit)}
  /\ second_pick' = SecondPick(NonLuxPools(reddit_all), selected_reddit_urls,
                               used_today', planned_today')
  /\ selected_reddit' = selected_reddit \o second_pick'
  /\ selected_reddit_urls' = selected_reddit_urls \cup Urls(second_pick')
  /\ pc' = "assemble"
  /\ UNCHANGED <<storeVars, clock, inputVars, newsVars, reddit_all, selected, widx,
                 outbox, history, marked, kwVars>>

\* line 479
Digest(reddit_sel, news_sel) ==
  Take(reddit_sel, FIXED_REDDIT_COUNT) \o Take(news_sel, OTHER_NEWS_COUNT)

\* lines 479-481
Assemble ==
  /\ pc = "assemble"
  /\ selected' = Digest(selected_reddit, selected_news)
  /\ widx' = 1
  /\ pc' = IF selected' = <<>> THEN "send_nothing" ELSE "mark_seen"
  /\ UNCHANGED <<storeVars, clock, inputVars, newsVars, redditVars, outbox,
                 history, marked, kwVars>>

\* tg_send: the request is delivered, or requests.post / raise_for_status raises
\* and the run ends with the exception
tg_send(msg, items, ok) ==
  /\ outbox' = [msg |-> msg, items |-> items, delivered |-> ok]
  /\ pc' = IF ok THEN "done" ELSE "failed"

\* lines 481-483: nothing selected
SendNothing ==
  /\ pc = "send_nothing"
  /\ \E ok \in BOOLEAN : tg_send("nothing_found", <<>>, ok)
  /\ UNCHANGED <<storeVars, clock, inputVars, newsVars, redditVars, selected, widx,
                 history, marked, kwVars>>

\* where the loop of lines 485-488 goes after the writes for selected[widx]
AfterItem ==
  /\ widx' = widx + 1
  /\ pc' = IF widx + 1 > Len(selected) THEN "send" ELSE "mark_seen"

\* line 486, one iteration
MarkSeenStep ==
  /\ pc = "mark_seen"
  /\ mark_seen(selected[widx].url, selected[widx].title_norm)
  /\ marked' = marked \cup {<<selected[widx].url, selected[widx].title_norm>>}
  /\ IF selected[widx].kind = "reddit"
     THEN pc' = "mark_subreddit_used" /\ widx' = widx
     ELSE AfterItem
  /\ UNCHANGED <<subreddit_daily, clock, inputVars, newsVars, redditVars, selected,
                 outbox, history, kwVars>>

\* lines 487-488, one iteration
MarkSubredditStep ==
  /\ pc = "mark_subreddit_used"
  /\ mark_subreddit_used(day_key, selected[widx].subreddit)
  /\ AfterItem
  /\ UNCHANGED <<seen, seen_title, clock, inputVars, newsVars, redditVars, selected,
                 outbox, history, marked, kwVars>>

\* lines 490-491: format_message renders the selected items in order
SendDigest ==
  /\ pc = "send"
  /\ \E ok \in BOOLEAN : tg_send("digest", selected, ok)
  /\ UNCHANGED <<storeVars, clock, inputVars, newsVars, redditVars, selected, widx,
                 history, marked, kwVars>>

\* the process is killed while it writes or sends; every commit made stays
Crash ==
  /\ pc \in {"mark_seen", "mark_subreddit_used", "send"}
  /\ pc' = "crashed"
  /\ UNCHANGED <<storeVars, clock, inputVars, newsVars, redditVars, selected, widx,
                 outbox, history, marked, kwVars>>

\* a second passes before mark_seen reads time.time()
Tick ==
  /\ pc = "mark_seen"
  /\ clock < Now0 + MaxTicks
  /\ clock' = clock + 1
  /\ UNCHANGED <<storeVars, pc, inputVars, newsVars, redditVars, selected, widx,
                 outbox, history, marked, kwVars>>

Terminated == pc \in {"done", "failed", "crashed"}

(***************************************************************************)
(* Initial states of a run                                                 *)
(***************************************************************************)
\* the subsets of S with at most n elements
UpTo(S, n) == {X \in SUBSET S : Cardinality(X) <= n}

\* a post of group g delivered earlier today, no longer in the hot listing
OldUrl(g) ==
  CASE g = "worldnews" -> "reddit/old/w"
    [] g = "science"   -> "reddit/old/s"
    [] OTHER           -> "reddit/old/e"
OldTitle == Len(RawTitles)

\* The store earlier runs leave: the items of prior were delivered at PriorTs,
\* and so was one post of each group of quota; one group has a row of yesterday.
StoreAfter(prior, quota) ==
  /\ seen = [u \in {x.url : x \in prior} \cup {OldUrl(g) : g \in quota} |-> PriorTs]
  /\ seen_title = [t \in {TitleInfo[x.title].title_norm : x \in prior}
                         \cup {OldTitle : g \in quota} |-> PriorTs]
  /\ subreddit_daily =
       [k \in {<<utc8_day_key(Now0), g>> : g \in quota}
              \cup {<<utc8_day_key(Now0) - 1, "dataisbeautiful">>} |->
          IF k[1] = utc8_day_key(Now0) THEN 1 ELSE 2]

\* the locals of main() before it runs, on what the fetchers returned
Locals(news, social) ==
  /\ news_items = news
  /\ reddit_items = social
  /\ clock = Now0
  /\ news_all_kw = <<>> /\ news_primary = <<>> /\ reddit_all = <<>>
  /\ selected_news = <<>> /\ selected_news_urls = {}
  /\ remaining_news_primary = <<>> /\ remaining_news_fallback = <<>>
  /\ selected_reddit = <<>> /\ selected_reddit_urls = {}
  /\ day_key = 0 /\ used_today = {} /\ planned_today = {} /\ second_pick = <<>>
  /\ selected = <<>> /\ widx = 0
  /\ outbox = [msg |-> "none", items |-> <<>>, delivered |-> FALSE]
  /\ history = [seen |-> seen, seen_title |-> seen_title,
                subreddit_daily |-> subreddit_daily, n_priority |-> 0, n_primary |-> 0]
  /\ marked = {}

NoKw == kw_text = <<>> /\ kw_arg = <<>> /\ kw_found = FALSE

\* main() is about to run
RunStarts(news, social) == Locals(news, social) /\ pc = "start" /\ NoKw

\* both kinds of feed answer
Init ==
  \E N \in SUBSET MixedNews, S \in SUBSET MixedSocial :
    \E prior \in UpTo(Range(Pick(NewsWorld, N)) \cup Range(Pick(RedditWorld, S)), MaxPrior),
       quota \in UpTo(QuotaGroups, 1) :
      /\ StoreAfter(prior, quota)
      /\ RunStarts(Pick(NewsWorld, N), Pick(RedditWorld, S))

\* Reddit answers with one post at most: the run is about the news
InitNews ==
  \E N \in UpTo(1..Len(NewsWorld), MaxNews), S \in SUBSET {2} :
    \E prior \in UpTo(Range(NewsWorld), MaxPrior) :
      /\ StoreAfter(prior, {})
      /\ RunStarts(Pick(NewsWorld, N), Pick(RedditWorld, S))

\* every news feed fails: the run has social items only
InitSocial ==
  \E S \in UpTo(1..Len(RedditWorld), MaxSocial) :
    \E prior \in UpTo(Range(RedditWorld), MaxPrior), quota \in SUBSET QuotaGroups :
      /\ StoreAfter(prior, quota)
      /\ RunStarts(<<>>, Pick(RedditWorld, S))

Next ==
  \/ Classify
  \/ NewsPriority
  \/ NewsPrimary
  \/ NewsFallback
  \/ RedditLux
  \/ RedditSecond
  \/ Assemble
  \/ SendNothing
  \/ MarkSeenStep
  \/ MarkSubredditStep
  \/ SendDigest
  \/ Crash
  \/ Tick

Spec == Init /\ [][Next]_vars

SpecNews == InitNews /\ [][Next]_vars

SpecSocial == InitSocial /\ [][Next]_vars

(***************************************************************************)
(* The store on its own: mark_seen called with any pairs, from an empty    *)
(* store (init_db on a new file)                                           *)
(***************************************************************************)
StoreUrls == {"dw/1", "dw/2", "f24/2"}
StoreTitles == {1, 2, 4}

InitStore ==
  /\ seen = <<>> /\ seen_title = <<>> /\ subreddit_daily = <<>>
  /\ Locals(<<>>, <<>>)
  /\ pc = "store"
  /\ NoKw

StoreMarkSeen ==
  /\ pc = "store"
  /\ Cardinality(marked) < MaxMarks
  /\ \E u \in StoreUrls, t \in StoreTitles :
       /\ mark_seen(u, t)
       /\ marked' = marked \cup {<<u, t>>}
  /\ UNCHANGED <<subreddit_daily, clock, pc, inputVars, newsVars, redditVars,
                 selected, widx, outbox, history, kwVars>>

StoreTick ==
  /\ pc = "store"
  /\ clock < Now0 + MaxTicks
  /\ clock' = clock + 1
  /\ UNCHANGED <<storeVars, pc, inputVars, newsVars, redditVars, selected, widx,
                 outbox, history, marked, kwVars>>

NextStore == StoreMarkSeen \/ StoreTick

SpecStore == InitStore /\ [][NextStore]_vars

(***************************************************************************)
(* kw_in_text on its own                                                   *)
(***************************************************************************)
KwAlphabet == {"e", "u", "s", " "}

\* a short alphabetic keyword, a long one, one with a space
KwSamples == { <<"e","u">>, <<"u","s","e","s">>, <<"e"," ","u">> }

\* the sequences over S of length at most n
SeqsUpTo(S, n) == UNION {[1..k -> S] : k \in 0..n}

InitKw ==
  /\ seen = <<>> /\ seen_title = <<>> /\ subreddit_daily = <<>>
  /\ Locals(<<>>, <<>>)
  /\ pc = "kw"
  /\ kw_text \in {t \in SeqsUpTo(KwAlphabet, MaxTextLen) : norm_text(t) = t}
  /\ kw_arg \in KwSamples
  /\ kw_found = FALSE

Match ==
  /\ pc = "kw"
  /\ kw_found' = kw_in_text(kw_text, kw_arg)
  /\ pc' = "kw_done"
  /\ UNCHANGED <<storeVars, clock, inputVars, newsVars, redditVars, selected, widx,
                 outbox, history, marked, kw_text, kw_arg>>

NextKw == Match

SpecKw == InitKw /\ [][NextKw]_vars

(***************************************************************************)
(* Properties                                                              *)
(***************************************************************************)
Selecting == pc \in {"start", "news_priority", "news_primary", "news_fallback",
                     "reddit_lux", "reddit_second", "assemble"}

StoreUnchanged ==
  /\ seen = history.seen
  /\ seen_title = history.seen_title
  /\ subreddit_daily = history.subreddit_daily

\* the items of a message that reached the channel
SentItems == IF outbox.delivered THEN Range(outbox.items) ELSE {}

\* C1: when a run has ended -- by a crash between the commits, by tg_send
\* raising, or normally -- every url and every normalised title the run has
\* committed to the store belongs to an item that was sent.
C1_MarkedOnlyIfSent ==
  Terminated =>
    /\ \A u \in DOMAIN seen \ DOMAIN history.seen : \E x \in SentItems : x.url = u
    /\ \A t \in DOMAIN seen_title \ DOMAIN history.seen_title :
         \E x \in SentItems : x.title_norm = t

\* C2: the digest has at most 5 items, at most 2 of them social and at most 3
\* of them news, and no two of its items have the same url, whatever their kinds.
C2_DigestBoundedAndUrlsDistinct ==
  ~Selecting =>
    /\ Len(selected) <= 5
    /\ Cardinality({i \in 1..Len(selected) : selected[i].kind = "reddit"}) <= 2
    /\ Cardinality({i \in 1..Len(selected) : selected[i].kind = "news"}) <= 3
    /\ \A i, j \in 1..Len(selected) : i # j => selected[i].url # selected[j].url

Today == utc8_day_key(Now0)

OldCount(k) ==
  IF k \in DOMAIN history.subreddit_daily THEN history.subreddit_daily[k] ELSE 0

SocialOfGroup(g) ==
  Cardinality({i \in 1..Len(selected) :
                 selected[i].kind = "reddit" /\ selected[i].subreddit = g})

\* C3: no write happens while the selection is not finished; once a run with a
\* non-empty digest has completed its writes, the store holds what it held
\* before plus exactly the url and the normalised title of every digest item,
\* every record it held before keeps its timestamp, and each quota counter of
\* today has grown by the number of social digest items of its group (no other
\* counter has changed).
C3_WritesAreExactlyTheDigest ==
  /\ Selecting => StoreUnchanged
  /\ (pc \in {"send", "done", "failed"} /\ selected # <<>>) =>
       /\ DOMAIN seen = DOMAIN history.seen \cup {selected[i].url : i \in 1..Len(selected)}
       /\ DOMAIN seen_title = DOMAIN history.seen_title
                               \cup {selected[i].title_norm : i \in 1..Len(selected)}
       /\ \A u \in DOMAIN history.seen : seen[u] = history.seen[u]
       /\ \A t \in DOMAIN history.seen_title : seen_title[t] = history.seen_title[t]
       /\ \A k \in DOMAIN subreddit_daily \cup DOMAIN history.subreddit_daily :
            /\ k \in DOMAIN subreddit_daily
            /\ subreddit_daily[k] =
                 OldCount(k) + (IF k[1] = Today THEN SocialOfGroup(k[2]) ELSE 0)
            /\ subreddit_daily[k] > 0

\* C3 witness: the writes are done for a digest with a news item and a social
\* item, one of them already in the store and the group's counter already there.
C3_Witness ==
  /\ pc = "done"
  /\ \E i, j \in 1..Len(selected) :
       /\ selected[i].kind = "news"
       /\ selected[j].kind = "reddit"
       /\ selected[j].url \in DOMAIN history.seen
       /\ <<Today, selected[j].subreddit>> \in DOMAIN history.subreddit_daily

\* a pair shares its url or its normalised title with a pair that was marked
SharesWithMarked(u, t) == \E m \in marked : m[1] = u \/ m[2] = t

\* C4: after any calls of mark_seen, already_seen holds of exactly the pairs
\* that share the url or the normalised title with a marked pair (the marked
\* pairs among them), and once it holds of a pair it holds of it for ever.
C4_SeenIffSharesWithMarked ==
  /\ [](\A u \in StoreUrls, t \in StoreTitles :
          already_seen(u, t) <=> SharesWithMarked(u, t))
  /\ [][\A u \in StoreUrls, t \in StoreTitles :
          already_seen(u, t) => already_seen(u, t)']_vars

\* C4 witness: two pairs are marked, a third shares only the title with one of
\* them, and a fourth shares nothing with either.
C4_Witness ==
  /\ marked = {<<"dw/1", 1>>, <<"dw/2", 2>>}
  /\ already_seen("f24/2", 1)
  /\ ~already_seen("f24/2", 4)

\* the run has no candidate: no social item, and no news item with a keyword hit
NoCandidates ==
  /\ reddit_items = <<>>
  /\ \A i \in 1..Len(news_items) : topic_hits_in_title(RawTitles[news_items[i].title]) = 0

\* C5: a run without candidates never writes to the store, hands tg_send nothing
\* but the "nothing found" message, and has handed it that message when it ends.
C5_NothingFoundNoWrites ==
  NoCandidates =>
    /\ StoreUnchanged
    /\ outbox.msg \in {"none", "nothing_found"}
    /\ pc \notin {"mark_seen", "mark_subreddit_used", "send", "crashed"}
    /\ Terminated => outbox.msg = "nothing_found"

\* C5 witness: a run whose only news item has no keyword hit has sent the message
C5_Witness ==
  /\ NoCandidates
  /\ news_items # <<>>
  /\ pc = "done"
  /\ outbox = [msg |-> "nothing_found", items |-> <<>>, delivered |-> TRUE]

\* kw occurs in text with a word boundary on both sides
WordOccurrence(t, k) ==
  \E i \in 1..(Len(t) - Len(k) + 1) :
    /\ SubSeq(t, i, i + Len(k) - 1) = k
    /\ (i = 1 \/ ~IsWordChar(t[i - 1]))
    /\ (i + Len(k) - 1 = Len(t) \/ ~IsWordChar(t[i + Len(k)]))

\* C10: a keyword with a space matches exactly when it is a substring of the
\* text; an alphabetic keyword of at most 3 characters matches exactly when it
\* occurs with a word boundary on both sides; any other keyword matches exactly
\* when it is a substring.
C10_KeywordMatchRule ==
  pc = "kw_done" =>
    kw_found = IF " " \in Range(kw_arg) THEN Contains(kw_text, kw_arg)
               ELSE IF isalpha(kw_arg) /\ Len(kw_arg) <= 3
                    THEN WordOccurrence(kw_text, kw_arg)
                    ELSE Contains(kw_text, kw_arg)

(***************************************************************************)
(* Social slot B                                                           *)
(***************************************************************************)
SocialPicked == pc \in {"assemble", "send_nothing", "mark_seen",
                        "mark_subreddit_used", "send", "done", "failed", "crashed"}

\* what slot A selected
SlotA ==
  IF second_pick = <<>> THEN selected_reddit
  ELSE SubSeq(selected_reddit, 1, Len(selected_reddit) - 1)

Claimed == Urls(SlotA)

\* the groups with a quota record of today, and the group slot A claimed
UsedGroups ==
  {k[2] : k \in {r \in DOMAIN history.subreddit_daily : r[1] = Today}}
    \cup {SlotA[i].subreddit : i \in 1..Len(SlotA)}

Candidates == {x \in Range(reddit_all) : x.subreddit # "Luxembourg"}

FreshSocial(x) == x.published_ts >= Now0 - 48 * Hour

Unseen(x) ==
  x.url \notin DOMAIN history.seen /\ x.title_norm \notin DOMAIN history.seen_title

\* the four relaxation tiers
Tier(n) ==
  CASE n = 1 -> {x \in Candidates : FreshSocial(x) /\ Unseen(x)}
    [] n = 2 -> {x \in Candidates : FreshSocial(x)}
    [] n = 3 -> {x \in Candidates : Unseen(x)}
    [] OTHER -> Candidates

UnclaimedTier(n) == {x \in Tier(n) : x.url \notin Claimed}

\* a ranks above b by (popularity, publishedAt)
RanksAbove(a, b) ==
  \/ a.popularity > b.popularity
  \/ a.popularity = b.popularity /\ a.published_ts > b.published_ts

FairnessApplies ==
  /\ Cardinality(UsedGroups) < 3
  /\ \E c \in Candidates : c.url \notin Claimed /\ c.subreddit \notin UsedGroups

RankingDecides ==
  \/ Cardinality(UsedGroups) >= 3
  \/ \A c \in Candidates : c.subreddit \in UsedGroups

\* slot B holds a candidate of a group not used yet
FairnessPart ==
  FairnessApplies =>
    /\ second_pick # <<>>
    /\ second_pick[1] \in Candidates
    /\ second_pick[1].subreddit \notin UsedGroups

\* C6 as stated: under fairness slot B holds a candidate of a group not used
\* yet; when 3 groups are used, or every candidate's group is used, slot B is
\* the highest-ranked candidate of the first non-empty tier.
C6_AsStated ==
  SocialPicked =>
    /\ FairnessPart
    /\ RankingDecides =>
         \A n \in 1..4 :
           (Tier(n) # {} /\ \A m \in 1..(n - 1) : Tier(m) = {}) =>
             /\ second_pick # <<>>
             /\ second_pick[1] \in Tier(n)
             /\ \A c \in Tier(n) : ~RanksAbove(c, second_pick[1])

\* C6 amended: ... slot B is the highest-ranked unclaimed candidate of the first
\* tier that holds an unclaimed candidate.
C6_FairnessThenRanking ==
  SocialPicked =>
    /\ FairnessPart
    /\ RankingDecides =>
         \A n \in 1..4 :
           (UnclaimedTier(n) # {} /\ \A m \in 1..(n - 1) : UnclaimedTier(m) = {}) =>
             /\ second_pick # <<>>
             /\ second_pick[1] \in UnclaimedTier(n)
             /\ \A c \in UnclaimedTier(n) : ~RanksAbove(c, second_pick[1])

\* C6 witness: fewer than 3 groups are used and slot B holds a candidate of an
\* unused group although an unclaimed candidate of a used group ranks above it.
C6_Witness ==
  /\ SocialPicked
  /\ Cardinality(UsedGroups) < 3
  /\ second_pick # <<>>
  /\ second_pick[1].subreddit \notin UsedGroups
  /\ \E c \in Candidates :
       /\ c.url \notin Claimed
       /\ c.subreddit \in UsedGroups
       /\ RanksAbove(c, second_pick[1])

\* C8: the item of slot B is taken from the first of the tiers (fresh and
\* unseen), (fresh), (unseen), (all) that holds an unclaimed candidate.
C8_FirstTierWithCandidate ==
  SocialPicked =>
    \A n \in 1..4 :
      (UnclaimedTier(n) # {} /\ \A m \in 1..(n - 1) : UnclaimedTier(m) = {}) =>
        /\ second_pick # <<>>
        /\ second_pick[1] \in UnclaimedTier(n)

(***************************************************************************)
(* News slots                                                              *)
(***************************************************************************)
NewsPicked == pc \notin {"start", "news_priority", "news_primary", "news_fallback"}

FreshNews(x) == x.published_ts >= Now0 - 6 * Hour

PrimaryPool == {x \in Range(news_all_kw) : FreshNews(x) /\ Unseen(x)}

ThreeTopicsInPrimary ==
  \E a, b, c \in PrimaryPool :
    a.topic # b.topic /\ a.topic # c.topic /\ b.topic # c.topic

TopicsDistinct ==
  \A i, j \in 1..Len(selected_news) :
    i # j => selected_news[i].topic # selected_news[j].topic

\* C7 as stated: with 3 primary-pool items of pairwise distinct topics, the 3
\* news slots hold primary-pool items of pairwise distinct topics.
C7_AsStated ==
  (NewsPicked /\ ThreeTopicsInPrimary) =>
    /\ Len(selected_news) = 3
    /\ \A k \in 1..Len(selected_news) : selected_news[k] \in PrimaryPool
    /\ TopicsDistinct

KeywordUrlsDistinct ==
  \A i, j \in 1..Len(news_all_kw) : i # j => news_all_kw[i].url # news_all_kw[j].url

\* C7 amended: with 3 primary-pool items of pairwise distinct topics, and no two
\* keyword-positive news items with the same url, the 3 news slots hold items of
\* pairwise distinct topics; they are primary-pool items, but for the priority
\* slot (the first), which holds a fallback item that hits the priority topic
\* when no primary-pool item hits it.
C7_ThreeDistinctTopics ==
  (NewsPicked /\ ThreeTopicsInPrimary /\ KeywordUrlsDistinct) =>
    /\ Len(selected_news) = 3
    /\ TopicsDistinct
    /\ \A k \in 1..Len(selected_news) :
         selected_news[k] \notin PrimaryPool =>
           /\ k = 1
           /\ selected_news[1].lux_hit
           /\ \A x \in PrimaryPool : ~x.lux_hit

\* C7 witness: the premises hold and the priority slot was filled from the
\* fallback pool
C7_Witness ==
  /\ NewsPicked /\ ThreeTopicsInPrimary /\ KeywordUrlsDistinct
  /\ Len(selected_news) = 3
  /\ selected_news[1] \notin PrimaryPool

PrefixTopics(k) == {selected_news[i].topic : i \in 1..k}

PrefixUrls(k) == {selected_news[i].url : i \in 1..k}

\* in the call that appended selected_news[n0+1 .. n1] from pool: an item whose
\* topic was represented was appended only when every pool item was claimed or
\* had its topic represented
DiverseFirst(pool, n0, n1) ==
  \A k \in (n0 + 1)..n1 :
    selected_news[k].topic \in PrefixTopics(k - 1) =>
      \A x \in pool : x.url \in PrefixUrls(k - 1) \/ x.topic \in PrefixTopics(k - 1)

TwoShareTopic(n0, n1) ==
  \E j, k \in (n0 + 1)..n1 : j < k /\ selected_news[j].topic = selected_news[k].topic

\* C9 as stated, for both calls of pick_news_diverse: diversity first, and if
\* two items the call appended share a topic then every topic of the pool is
\* represented in the selection.
C9_AsStated ==
  NewsPicked =>
    /\ DiverseFirst(Range(remaining_news_primary), history.n_priority, history.n_primary)
    /\ DiverseFirst(Range(remaining_news_fallback), history.n_primary, Len(selected_news))
    /\ TwoShareTopic(history.n_priority, history.n_primary) =>
         \A x \in Range(remaining_news_primary) : x.topic \in PrefixTopics(history.n_primary)
    /\ TwoShareTopic(history.n_primary, Len(selected_news)) =>
         \A x \in Range(remaining_news_fallback) :
           x.topic \in PrefixTopics(Len(selected_news))

\* C9 amended: ... then every pool item has its topic represented in the
\* selection or has the url of a selected item.
C9_DiversityFirst ==
  NewsPicked =>
    /\ DiverseFirst(Range(remaining_news_primary), history.n_priority, history.n_primary)
    /\ DiverseFirst(Range(remaining_news_fallback), history.n_primary, Len(selected_news))
    /\ TwoShareTopic(history.n_priority, history.n_primary) =>
         \A x \in Range(remaining_news_primary) :
           \/ x.topic \in PrefixTopics(history.n_primary)
           \/ x.url \in PrefixUrls(history.n_primary)
    /\ TwoShareTopic(history.n_primary, Len(selected_news)) =>
         \A x \in Range(remaining_news_fallback) :
           \/ x.topic \in PrefixTopics(Len(selected_news))
           \/ x.url \in PrefixUrls(Len(selected_news))

\* C9 witness: the call on the primary pool appended an item with a new topic
\* before a higher-ranked item whose topic was represented.
C9_Witness ==
  /\ NewsPicked
  /\ \E j, k \in (history.n_priority + 1)..history.n_primary :
       /\ j < k
       /\ selected_news[k].topic \in PrefixTopics(j - 1)
       /\ \E a, b \in 1..Len(remaining_news_primary) :
            /\ a < b
            /\ remaining_news_primary[a] = selected_news[k]
            /\ remaining_news_primary[b] = selected_news[j]
====
